---- MODULE Spec2Model ----
(***************************************************************************)
(* NPM Commander, Tauri frontend (src/unnamed/part_000, the multi-tab      *)
(* main.js) as a state machine.  One action per event-loop task: a user    *)
(* event, a backend reply to an invoke(), or a backend event.  The         *)
(* continuation of an awaited promise that is resolved by the frontend     *)
(* itself runs from the microtask queue `micro`, which is drained before   *)
(* any other task is taken.                                                *)
(*                                                                         *)
(* Text is a sequence of one-character strings; the escape characters      *)
(* U+001B and U+009B are written "ESC" and "CSI".                          *)
(***************************************************************************)
EXTENDS Integers, Sequences, FiniteSets, TLC

(* ------------------------------ bounds -------------------------------- *)

\* tab ids handed out by createNewTab: tab-1 .. tab-MaxTabId
MaxTabId == 2
\* handlers suspended at an await (an invoke() or the confirm dialog) at one time
MaxPending == 1
\* clicks on one script button while its run_script is not yet answered
MaxClicks == 2
\* scripts of a package.json
NumScripts == 1
\* project folders the user can pick
NumPaths == 1
\* child processes of one script of one tab alive at a time
MaxProcs == 1
\* interval timers alive at a time
MaxTimers == 2

MAX_HISTORY == 10

(* ------------------------------- text --------------------------------- *)

Min(S) == CHOOSE x \in S : \A y \in S : x <= y
Max(S) == CHOOSE x \in S : \A y \in S : x >= y

UpperAlpha ==
  <<"A","B","C","D","E","F","G","H","I","J","K","L","M",
    "N","O","P","Q","R","S","T","U","V","W","X","Y","Z">>
LowerAlpha ==
  <<"a","b","c","d","e","f","g","h","i","j","k","l","m",
    "n","o","p","q","r","s","t","u","v","w","x","y","z">>

ToLowerChar(c) ==
  IF \E i \in 1..26 : UpperAlpha[i] = c
  THEN LowerAlpha[CHOOSE i \in 1..26 : UpperAlpha[i] = c]
  ELSE c

ToLowerCase(s) == [i \in 1..Len(s) |-> ToLowerChar(s[i])]

\* String.prototype.includes / startsWith
Includes(s, sub) ==
  \E i \in 1..(Len(s) + 1) :
    /\ i + Len(sub) - 1 <= Len(s)
    /\ SubSeq(s, i, i + Len(sub) - 1) = sub

StartsWith(s, sub) == Len(sub) <= Len(s) /\ SubSeq(s, 1, Len(sub)) = sub

DigitChars == {"0","1","2","3","4","5","6","7","8","9"}

\* ANSI_REGEX = /[\u001b\u009b][[()#;?]*(?:[0-9]{1,4}(?:;[0-9]{0,4})*)?[0-9A-ORZcf-nqry=><]/g
AnsiStart == {"ESC", "CSI"}
AnsiIntermediate == {"[", "(", ")", "#", ";", "?"}
AnsiFinal ==
  DigitChars \cup
  {"A","B","C","D","E","F","G","H","I","J","K","L","M","N","O","R","Z",
   "c","f","g","h","i","j","k","l","m","n","q","r","y","=",">","<"}

IsFinalAt(s, p) == p >= 1 /\ p <= Len(s) /\ s[p] \in AnsiFinal

\* length of the run of characters of class C that starts at position p
RECURSIVE RunLen(_, _, _)
RunLen(s, p, C) ==
  IF p >= 1 /\ p <= Len(s) /\ s[p] \in C THEN 1 + RunLen(s, p + 1, C) ELSE 0

\* (?:;[0-9]{0,4})* followed by the final character, from position q: the
\* position of the final character on the first path the backtracking
\* matcher finds (greedy: another iteration first, most digits first), 0 if none
RECURSIVE StarEnd(_, _)
StarEnd(s, q) ==
  IF q <= Len(s) /\ s[q] = ";"
  THEN LET r  == Min({4, RunLen(s, q + 1, DigitChars)})
           ds == {d \in 0..r : StarEnd(s, q + 1 + d) > 0}
       IN  IF ds # {} THEN StarEnd(s, q + 1 + Max(ds))
           ELSE IF IsFinalAt(s, q) THEN q ELSE 0
  ELSE IF IsFinalAt(s, q) THEN q ELSE 0

\* [0-9]{1,4}(?:;[0-9]{0,4})* followed by the final character, from p
ParamsEnd(s, p) ==
  LET r  == Min({4, RunLen(s, p, DigitChars)})
      ds == {d \in 1..r : StarEnd(s, p + d) > 0}
  IN  IF ds # {} THEN StarEnd(s, p + Max(ds)) ELSE 0

\* the optional parameter group, then the final character
TailEnd(s, p) ==
  IF ParamsEnd(s, p) > 0 THEN ParamsEnd(s, p)
  ELSE IF IsFinalAt(s, p) THEN p ELSE 0

\* the last position of the ANSI_REGEX match that starts at i, 0 if none
AnsiEnd(s, i) ==
  IF ~(i >= 1 /\ i <= Len(s) /\ s[i] \in AnsiStart) THEN 0
  ELSE LET m  == RunLen(s, i + 1, AnsiIntermediate)
           ks == {k \in 0..m : TailEnd(s, i + 1 + k) > 0}
       IN  IF ks # {} THEN TailEnd(s, i + 1 + Max(ks)) ELSE 0

RECURSIVE StripFrom(_, _)
StripFrom(s, i) ==
  IF i > Len(s) THEN <<>>
  ELSE IF AnsiEnd(s, i) > 0 THEN StripFrom(s, AnsiEnd(s, i) + 1)
  ELSE <<s[i]>> \o StripFrom(s, i + 1)

stripAnsi(text) == StripFrom(text, 1)

(* the three patterns of checkForUrl, flags gi *)

\* the position after literal `lit` (lower case) matched ignoring case at i;
\* 0 when it does not match or i is already a failure
LitAfter(s, i, lit) ==
  IF /\ i >= 1
     /\ i + Len(lit) - 1 <= Len(s)
     /\ ToLowerCase(SubSeq(s, i, i + Len(lit) - 1)) = lit
  THEN i + Len(lit) ELSE 0

\* an optional literal: taken when present (greedy `?`)
OptAfter(s, i, lit) ==
  IF i = 0 THEN 0
  ELSE IF LitAfter(s, i, lit) > 0 THEN LitAfter(s, i, lit) ELSE i

\* \d+ : the position after the longest run of digits at i, 0 if there is none
DigitsAfter(s, i) ==
  IF i >= 1 /\ RunLen(s, i, DigitChars) > 0
  THEN i + RunLen(s, i, DigitChars) ELSE 0

SchemeAfter(s, i) ==
  LitAfter(s, OptAfter(s, LitAfter(s, i, <<"h","t","t","p">>), <<"s">>),
           <<":","/","/">>)

HostLocalhost == <<"l","o","c","a","l","h","o","s","t">>
HostLoopback4 == <<"1","2","7",".","0",".","0",".","1">>
HostLoopback6 == <<":",":","1">>

\* the position after the match of pattern k (1..3) that starts at i, 0 if none
UrlAfter(s, i, k) ==
  LET h == SchemeAfter(s, i)
      host == CASE k = 1 -> LitAfter(s, h, HostLocalhost)
                [] k = 2 -> LitAfter(s, h, HostLoopback4)
                [] OTHER -> OptAfter(s,
                              LitAfter(s, OptAfter(s, h, <<"[">>), HostLoopback6),
                              <<"]">>)
  IN  DigitsAfter(s, LitAfter(s, host, <<":">>))

\* text.match(pattern)[0] : the leftmost match, <<>> when match() is null
FirstUrl(s, k) ==
  LET starts == {i \in 1..Len(s) : UrlAfter(s, i, k) > 0}
  IN  IF starts = {} THEN <<>>
      ELSE SubSeq(s, Min(starts), UrlAfter(s, Min(starts), k) - 1)

\* the URL checkForUrl picks: the first pattern, in order, that matches
PickUrl(s) ==
  IF FirstUrl(s, 1) # <<>> THEN FirstUrl(s, 1)
  ELSE IF FirstUrl(s, 2) # <<>> THEN FirstUrl(s, 2)
  ELSE FirstUrl(s, 3)


\* the classification of a 'script-output' payload (lines 209-223)
OutputType(cleanText, dataType) ==
  LET lower == ToLowerCase(cleanText) IN
  IF dataType = "stderr"
  THEN IF \/ Includes(lower, <<"w","a","r","n","i","n","g">>)
          \/ Includes(cleanText, <<"W","A","R","N">>)
       THEN "warning" ELSE "error"
  ELSE IF \/ Includes(lower, <<"e","r","r","o","r",":">>)
          \/ Includes(lower, <<"f","a","i","l">>)
          \/ Includes(lower, <<"e","x","c","e","p","t","i","o","n">>)
       THEN "error"
       ELSE IF \/ Includes(lower, <<"w","a","r","n">>)
               \/ Includes(lower, <<"w","a","r","n","i","n","g",":">>)
            THEN "warning" ELSE ""

\* the class appendConsoleTo gives the new span (lines 869-880)
SpanClass(text, type) ==
  LET lower == ToLowerCase(text) IN
  IF type # "" THEN type
  ELSE IF \/ StartsWith(lower, <<"e","r","r","o","r">>)
          \/ Includes(lower, <<"e","r","r","o","r",":">>)
       THEN "error"
       ELSE IF \/ StartsWith(lower, <<"w","a","r","n">>)
               \/ Includes(lower, <<"w","a","r","n","i","n","g",":">>)
            THEN "warning" ELSE ""

\* one span appended to the console element of tab t
Line(t, text, type) == [tab |-> t, text |-> text, class |-> SpanClass(text, type)]

(* ----------------------------- the inputs ------------------------------ *)

TabIds == 1..MaxTabId

\* the scripts of every package.json: a server script first, then one-shot ones
ScriptNames == <<"dev", "lint", "build", "test">>
Scripts == {ScriptNames[i] : i \in 1..NumScripts}
\* serverScripts of updateScriptButtons
ServerScripts == {"dev", "preview", "start", "serve"}

PathNames ==
  <<"/p1", "/p2", "/p3", "/p4", "/p5", "/p6", "/p7",
    "/p8", "/p9", "/p10", "/p11", "/p12", "/p13">>
Paths == {PathNames[i] : i \in 1..NumPaths}
\* what get_default_path answers
DefaultPath == PathNames[1]

\* the payloads the backend streams
OutPlain == <<"o","k">>
OutVite ==
  <<"ESC","[","3","6","m","h","t","t","p",":","/","/">> \o HostLocalhost \o
  <<":","ESC","[","1","m","5","1","ESC","[","2","2","m","/">>
OutBoth ==
  <<"H","T","T","P","S",":","/","/">> \o HostLoopback4 \o <<":","8"," ">> \o
  <<"h","t","t","p",":","/","/">> \o HostLocalhost \o <<":","5","1">>
OutLoop6 ==
  <<"W","A","R","N"," ","h","t","t","p",":","/","/","[",":",":","1","]",":","9">>
OutEaten ==
  <<"ESC","h","t","t","p",":","/","/">> \o HostLocalhost \o <<":","5","1">>
Payloads ==
  { [data |-> OutPlain, type |-> "stdout"],
    [data |-> OutVite,  type |-> "stdout"],
    [data |-> OutBoth,  type |-> "stdout"],
    [data |-> OutLoop6, type |-> "stderr"],
    [data |-> OutEaten, type |-> "stdout"] }

\* the error strings a rejected load_project and a rejected run_script carry
LoadError == <<"load_project failed">>
RunError == <<"run_script failed">>

(* ------------------------------ the state ------------------------------ *)

VARIABLES
  pc,                   \* "load": the module is evaluated, init() has not run
  tabs,                 \* the keys of the Map `tabs`, in insertion order
  activeTabId,          \* 0 is null
  nextTabId,
  isInitialStartup,
  project,              \* per tab object: tab.project
  detectedUrl,          \* per tab object: tab.detectedUrl, <<>> is null
  runningScripts,       \* per tab object: the Set, in insertion order
  console,              \* per tab object: what consoleEl holds
  recentProjects,
  localStorage,         \* the item 'npm-commander-history', <<>> when absent
  projectButtonsHidden, \* class 'hidden' of clearProjectBtn, openFinderBtn, killAllPortsBtn
  scriptsBar,           \* the tab whose script buttons the scripts bar shows, 0 if none
  killAllPortsBtn,      \* its label and its disabled flag
  confirms,             \* the listeners showCustomConfirm left on the modal's buttons
  micro,                \* continuations of promises the frontend resolved itself
  calls,                \* invoke() calls in flight, each with the handler awaiting it
  procs,                \* backend: child processes alive per (tab, script)
  appended,             \* the spans the last step appended, in order
  clearBtnState,        \* 1 while clearProjectBtn waits for its second click
  clearBtnCountdown,
  clearBtnInterval,     \* the id setInterval returned last, 0 is null
  intervals,            \* the ids of the interval timers that are alive
  nodeModulesInstalled, \* per tab object: tab.project.nodeModulesInstalled
  installBtn,           \* depsStatus holds an Install button
  nodeModules,          \* backend: the folders that have a node_modules
  stopSent              \* the <<tab, script>> closeTab has sent stop_script for

vars ==
  <<pc, tabs, activeTabId, nextTabId, isInitialStartup, project, detectedUrl,
    runningScripts, console, recentProjects, localStorage, projectButtonsHidden,
    scriptsBar, killAllPortsBtn, confirms, micro, calls,
    procs, appended, clearBtnState, clearBtnCountdown, clearBtnInterval,
    intervals, nodeModulesInstalled, installBtn, nodeModules, stopSent>>

\* the state of the Clear Project button, and of the dependencies panel
clearBtn == <<clearBtnState, clearBtnCountdown, clearBtnInterval, intervals>>
deps == <<nodeModulesInstalled, installBtn, nodeModules>>

NoProject == [name |-> "", projectPath |-> ""]
NoUrl == <<>>
NoItem == <<>>

\* the answer of load_project for a folder
ProjectAt(path) == [name |-> path, projectPath |-> path]

Range(s) == {s[i] : i \in 1..Len(s)}
InTabs(id) == id \in Range(tabs)
IndexOf(s, x) == IF x \in Range(s) THEN CHOOSE i \in 1..Len(s) : s[i] = x ELSE 0
Without(s, x) == SelectSeq(s, LAMBDA y : y # x)
Last(s) == s[Len(s)]

(* ------------------------------ history ------------------------------- *)

\* JSON.stringify(recentProjects): the text as a sequence of tokens; a string
\* is a quote, its characters and a quote, a key is written in insertion order
JsonString(v) == <<"\"", v, "\"">>
\* a serialization that keeps only name and path
JsonEntryBare(e) ==
  <<"{">> \o JsonString("name") \o <<":">> \o JsonString(e.name) \o <<",">> \o
  JsonString("path") \o <<":">> \o JsonString(e.path) \o <<"}">>

JsonEntry(e) ==
  <<"{">> \o JsonString("name") \o <<":">> \o JsonString(e.name) \o <<",">> \o
  JsonString("path") \o <<":">> \o JsonString(e.path) \o
  (IF "closedAt" \in DOMAIN e
   THEN <<",">> \o JsonString("closedAt") \o <<":">> \o JsonString(e.closedAt)
   ELSE <<>>) \o <<"}">>

RECURSIVE JsonEntries(_)
JsonEntries(list) ==
  IF list = <<>> THEN <<>>
  ELSE JsonEntry(Head(list)) \o
       (IF Len(list) > 1 THEN <<",">> ELSE <<>>) \o JsonEntries(Tail(list))

JSONstringify(list) == <<"[">> \o JsonEntries(list) \o <<"]">>

\* JSON.parse of such a text.  Each parser answers [ok, val, next]: whether it
\* read a value at position i, the value, and the position after it.
JsonFail == [ok |-> FALSE, val |-> <<>>, next |-> 0]
TokenAt(t, i) == IF i >= 1 /\ i <= Len(t) THEN t[i] ELSE "<end>"

ParseString(t, i) ==
  IF TokenAt(t, i) = "\"" /\ TokenAt(t, i + 2) = "\"" /\ i + 1 <= Len(t)
  THEN [ok |-> TRUE, val |-> <<t[i + 1]>>, next |-> i + 3]
  ELSE JsonFail

\* the members of an object from position i (after "{" or ","), added to obj
RECURSIVE ParseMembers(_, _, _)
ParseMembers(t, i, obj) ==
  LET k == ParseString(t, i)
      v == ParseString(t, k.next + 1)
  IN  IF ~(k.ok /\ TokenAt(t, k.next) = ":" /\ v.ok) THEN JsonFail
      ELSE LET o2 == [f \in DOMAIN obj \cup {k.val[1]} |->
                        IF f = k.val[1] THEN v.val[1] ELSE obj[f]]
           IN  IF TokenAt(t, v.next) = "," THEN ParseMembers(t, v.next + 1, o2)
               ELSE IF TokenAt(t, v.next) = "}"
                    THEN [ok |-> TRUE, val |-> <<o2>>, next |-> v.next + 1]
                    ELSE JsonFail

ParseObject(t, i) ==
  IF TokenAt(t, i) # "{" THEN JsonFail
  ELSE ParseMembers(t, i + 1, [f \in {} |-> ""])

\* the elements of an array from position i (after "[" or ","), added to acc
RECURSIVE ParseElements(_, _, _)
ParseElements(t, i, acc) ==
  LET e == ParseObject(t, i)
  IN  IF ~e.ok THEN JsonFail
      ELSE IF TokenAt(t, e.next) = ","
           THEN ParseElements(t, e.next + 1, acc \o e.val)
           ELSE IF TokenAt(t, e.next) = "]"
                THEN [ok |-> TRUE, val |-> acc \o e.val, next |-> e.next + 1]
                ELSE JsonFail

JSONparse(t) ==
  IF TokenAt(t, 1) # "[" THEN JsonFail
  ELSE IF TokenAt(t, 2) = "]" THEN [ok |-> TRUE, val |-> <<>>, next |-> 3]
  ELSE ParseElements(t, 2, <<>>)

\* loadHistory: the value recentProjects has after it, starting from []
loadHistory(stored) ==
  IF stored = NoItem THEN <<>>
  ELSE IF JSONparse(stored).ok /\ JSONparse(stored).next = Len(stored) + 1
       THEN JSONparse(stored).val
       ELSE <<>>

\* recentProjects.findIndex(p => p.path === path), 0 for -1
FindIndex(list, path) ==
  IF \E i \in 1..Len(list) : list[i].path = path
  THEN Min({i \in 1..Len(list) : list[i].path = path})
  ELSE 0

RemoveAt(list, i) == SubSeq(list, 1, i - 1) \o SubSeq(list, i + 1, Len(list))

\* an addToHistory that neither removes the old entry nor cuts the list
addToHistoryAll(list, proj) ==
  <<[name |-> proj.name, path |-> proj.projectPath]>> \o list

\* addToHistory: recentProjects after it
addToHistory(list, proj) ==
  IF proj = NoProject \/ proj.projectPath = "" THEN list
  ELSE LET i     == FindIndex(list, proj.projectPath)
           kept  == IF i # 0 THEN RemoveAt(list, i) ELSE list
           added == <<[name |-> proj.name, path |-> proj.projectPath]>> \o kept
       IN  IF Len(added) > MAX_HISTORY THEN SubSeq(added, 1, MAX_HISTORY)
           ELSE added

\* the stored item after addToHistory
StoredAfterAdd(list, stored, proj) ==
  IF proj = NoProject \/ proj.projectPath = "" THEN stored
  ELSE JSONstringify(addToHistory(list, proj))

\* new Date().toISOString()
ClosedStamp == "closed"

\* updateHistoryOnClose: recentProjects after it
updateHistoryOnClose(list, path) ==
  IF path = "" \/ FindIndex(list, path) = 0 THEN list
  ELSE LET i == FindIndex(list, path)
           e == list[i]
           c == [f \in DOMAIN e \cup {"closedAt"} |->
                   IF f = "closedAt" THEN ClosedStamp ELSE e[f]]
       IN  [list EXCEPT ![i] = c]

\* the stored item after updateHistoryOnClose
StoredAfterClose(list, stored, path) ==
  IF path = "" \/ FindIndex(list, path) = 0 THEN stored
  ELSE JSONstringify(updateHistoryOnClose(list, path))

(* ------------------------------ helpers -------------------------------- *)

\* an invoke() in flight: the command, the handler that awaits it (ctx), the
\* tab object and the argument the handler holds, the backend's answer where
\* it is fixed when the call is made (ok), the position of the handler's
\* iterator over tab.runningScripts (it), the tab the function that made the
\* call works on and names in the request (req); n tells apart equal calls
Call(op, ctx, t, arg, ok, it) ==
  [op |-> op, ctx |-> ctx, tab |-> t, arg |-> arg, ok |-> ok, it |-> it,
   req |-> t, n |-> 0]

AddCall(cs, c) ==
  cs \cup {[c EXCEPT !.n =
              Min({k \in 1..(Cardinality(cs) + 1) : [c EXCEPT !.n = k] \notin cs})]}

\* the event loop is free to take a task
Idle == pc = "run" /\ micro = <<>>

\* the modal covers the window while it is shown: a click reaches only its
\* two buttons, a key still reaches the window
ModalHidden == confirms = <<>>

\* handlers suspended at an await
Pending == Cardinality(calls) + Len(confirms) + Len(micro)
Room == Pending < MaxPending

\* the same, not counting init() while it awaits the backend
StartupRoom ==
  Cardinality({c \in calls : c.ctx # "init"}) + Len(confirms) + Len(micro)
    < MaxPending

\* the run_script calls for script `name` of tab t that are not yet answered
RunCalls(t, name) ==
  {c \in calls : c.op = "run_script" /\ c.tab = t /\ c.arg = name}
\* the script button can be clicked again before run_script answers
ClickRoom(t, name) ==
  /\ Cardinality(RunCalls(t, name)) < MaxClicks
  /\ Pending - Cardinality(RunCalls(t, name)) < MaxPending

\* Set.prototype.add
SetAdd(s, name) == IF name \in Range(s) THEN s ELSE Append(s, name)

\* the tabs some closeTab in progress is about to remove
ClosingTabs ==
  {m.tab : m \in {w \in Range(confirms) \cup Range(micro) : w.op = "closeTab"}}
  \cup {c.tab : c \in {d \in calls : d.op = "stop_script" /\ d.ctx = "closeTab"}}

\* updateScriptButtons: tab.detectedUrl of every tab after it, for the active
\* tab `active` of the Map with keys `open`
updateScriptButtons(urls, rs, open, active) ==
  IF /\ active \in Range(open)
     /\ urls[active] # NoUrl
     /\ ~(\E s \in ServerScripts : s \in Range(rs[active]))
  THEN [urls EXCEPT ![active] = NoUrl]
  ELSE urls

\* a clearInterval that stops nothing
ClearedNone(timers, id) == timers

\* clearInterval(id): the timers alive after it; a timer that is gone, or
\* null, stops nothing
ClearedInterval(timers, id) == timers \ {id}

\* window.resetClearButton
resetClearButton ==
  /\ intervals' = ClearedInterval(intervals, clearBtnInterval)
  /\ clearBtnState' = 0
  /\ UNCHANGED <<clearBtnCountdown, clearBtnInterval>>

\* switchTab(id) with the Map keys `open` and the running sets rs
switchTab(id, open, rs) ==
  IF activeTabId = id
  THEN UNCHANGED <<activeTabId, projectButtonsHidden, scriptsBar, detectedUrl,
                   clearBtn, installBtn>>
  ELSE /\ activeTabId' = id
       /\ resetClearButton
       /\ IF id \in Range(open)
          THEN /\ projectButtonsHidden' = (project[id] = NoProject)
               /\ scriptsBar' = IF project[id] # NoProject THEN id ELSE 0
               /\ installBtn' = (project[id] # NoProject /\ ~nodeModulesInstalled[id])
               /\ detectedUrl' = updateScriptButtons(detectedUrl, rs, open, id)
          ELSE UNCHANGED <<projectButtonsHidden, scriptsBar, detectedUrl, installBtn>>

\* createNewTab() called by handler ctx, with the Map keys `open`, the calls cs
\* in flight, the running sets rs and the consoles co
createNewTab(ctx, open, cs, rs, co) ==
  /\ nextTabId <= MaxTabId
  /\ nextTabId' = nextTabId + 1
  /\ tabs' = Append(open, nextTabId)
  /\ project' = [project EXCEPT ![nextTabId] = NoProject]
  /\ detectedUrl' = [detectedUrl EXCEPT ![nextTabId] = NoUrl]
  /\ runningScripts' = [rs EXCEPT ![nextTabId] = <<>>]
  /\ console' = [co EXCEPT ![nextTabId] = "dropzone"]
  \* switchTab(id): the new tab has no project and no URL
  /\ activeTabId' = nextTabId
  /\ resetClearButton
  /\ projectButtonsHidden' = TRUE
  /\ scriptsBar' = 0
  /\ installBtn' = FALSE
  /\ calls' = IF isInitialStartup /\ Len(open) = 0
              THEN AddCall(cs, Call("get_default_path", ctx, nextTabId, "", TRUE, 0))
              ELSE cs

\* loadProject(path) up to its await, called by handler ctx with calls cs in
\* flight, after the handler has appended the spans app and left the consoles co
loadProjectAfter(path, ctx, cs, app, co) ==
  IF ~InTabs(activeTabId)
  THEN /\ calls' = cs
       /\ appended' = app
       /\ console' = co
       /\ UNCHANGED <<recentProjects, localStorage, detectedUrl>>
  ELSE LET t   == activeTabId
           old == project[t].projectPath
           chg == project[t] # NoProject /\ old # path
       IN  /\ recentProjects' =
                IF chg THEN updateHistoryOnClose(recentProjects, old)
                ELSE recentProjects
           /\ localStorage' =
                IF chg THEN StoredAfterClose(recentProjects, localStorage, old)
                ELSE localStorage
           /\ console' = [co EXCEPT ![t] = "lines"]
           /\ detectedUrl' = [detectedUrl EXCEPT ![t] = NoUrl]
           /\ appended' =
                app \o <<Line(t, <<"Loading project from: ", path>>, "info")>>
           /\ calls' = AddCall(cs, Call("load_project", ctx, t, path, TRUE, 0))

\* loadProject(path) up to its await, called first thing by handler ctx
loadProject(path, ctx, cs) == loadProjectAfter(path, ctx, cs, <<>>, console)

\* a loop over a Set that never finds an entry
HasNextNever(set, it) == FALSE

\* `for (const script of set)`: an entry is ahead of an iterator that has
\* `it` entries behind it
HasNext(set, it) == it < Len(set)

\* a closeTab that leaves the closed tab active
AfterCloseStay(id, open) == id

\* the tab closeTab switches to: Array.from(tabs.keys()).pop()
AfterClose(id, open) == Last(open)

\* closeTab(id) from its loop over tabToClose.runningScripts on: `it` entries
\* of the Set are behind the iterator, rs are the running sets, cs the calls
\* in flight, app the spans appended so far in this task
closeTabLoop(id, it, rs, cs, app) ==
  IF InTabs(id) /\ HasNext(rs[id], it)
  THEN \* stopScript(script, id) up to its await
       /\ runningScripts' = rs
       /\ appended' = app \o <<Line(id, <<"Stopping: ", rs[id][it + 1]>>, "warning")>>
       /\ console' = [console EXCEPT ![id] = "lines"]
       /\ calls' = AddCall(cs, Call("stop_script", "closeTab", id,
                                    rs[id][it + 1], TRUE, it + 1))
       /\ stopSent' = stopSent \cup {<<id, rs[id][it + 1]>>}
       /\ UNCHANGED <<tabs, activeTabId, nextTabId, project, detectedUrl,
                      projectButtonsHidden, scriptsBar, clearBtn, installBtn>>
  ELSE IF ~InTabs(id)
  THEN \* every stopScript returns at once and tabs.delete finds nothing
       /\ runningScripts' = rs
       /\ appended' = app
       /\ calls' = cs
       /\ UNCHANGED <<tabs, activeTabId, nextTabId, project, detectedUrl,
                      console, projectButtonsHidden, scriptsBar, clearBtn,
                      installBtn, stopSent>>
  ELSE IF Without(tabs, id) = <<>>
  THEN \* activeTabId = null; await createNewTab()
       /\ appended' = app
       /\ createNewTab("closeTab", <<>>, cs, rs, console)
       /\ UNCHANGED stopSent
  ELSE /\ appended' = app
       /\ runningScripts' = rs
       /\ calls' = cs
       /\ tabs' = Without(tabs, id)
       /\ IF activeTabId = id
          THEN switchTab(AfterClose(id, Without(tabs, id)), Without(tabs, id), rs)
          ELSE UNCHANGED <<activeTabId, projectButtonsHidden, scriptsBar,
                           detectedUrl, clearBtn, installBtn>>
       /\ UNCHANGED <<nextTabId, project, console, stopSent>>

(* ------------------------------- Init ---------------------------------- *)

InitWith(stored) ==
  /\ pc = "load"
  /\ tabs = <<>>
  /\ activeTabId = 0
  /\ nextTabId = 1
  /\ isInitialStartup = TRUE
  /\ project = [t \in TabIds |-> NoProject]
  /\ detectedUrl = [t \in TabIds |-> NoUrl]
  /\ runningScripts = [t \in TabIds |-> <<>>]
  /\ console = [t \in TabIds |-> "dropzone"]
  /\ recentProjects = <<>>
  /\ localStorage \in stored
  /\ projectButtonsHidden = TRUE
  /\ scriptsBar = 0
  /\ killAllPortsBtn = [text |-> "Kill All Ports", disabled |-> FALSE]
  /\ confirms = <<>>
  /\ micro = <<>>
  /\ calls = {}
  /\ procs = [t \in TabIds |-> [s \in Scripts |-> 0]]
  /\ appended = <<>>
  /\ clearBtnState = 0
  /\ clearBtnCountdown = 3
  /\ clearBtnInterval = 0
  /\ intervals = {}
  /\ nodeModulesInstalled = [t \in TabIds |-> FALSE]
  /\ installBtn = FALSE
  /\ nodeModules = {}
  /\ stopSent = {}

Init == InitWith({NoItem})

(* ------------------------------ startup -------------------------------- *)

\* init() up to the await in createNewTab
Startup ==
  /\ pc = "load"
  /\ pc' = "run"
  /\ recentProjects' = loadHistory(localStorage)
  /\ createNewTab("init", tabs, calls, runningScripts, console)
  /\ appended' = <<>>
  /\ UNCHANGED <<isInitialStartup, localStorage, killAllPortsBtn, confirms, micro, procs,
                 nodeModulesInstalled, nodeModules, stopSent>>

\* get_default_path answers: createNewTab goes on to loadProject(defaultPath)
DefaultPathReply(c) ==
  /\ Idle
  /\ c \in calls /\ c.op = "get_default_path"
  /\ loadProject(DefaultPath, c.ctx, calls \ {c})
  /\ isInitialStartup' =
       IF c.ctx = "init" /\ ~InTabs(activeTabId) THEN FALSE ELSE isInitialStartup
  /\ UNCHANGED <<pc, tabs, activeTabId, nextTabId, project, runningScripts,
                 projectButtonsHidden, scriptsBar, killAllPortsBtn, confirms, micro, procs,
                 clearBtn, deps, stopSent>>

(* ------------------------------ projects ------------------------------- *)

\* the folder dialog of selectFolderBtn answers, or a folder is dropped on the
\* window: loadProject(folder) up to its await
SelectFolder(path) ==
  /\ Idle /\ Room
  /\ InTabs(activeTabId)
  /\ loadProject(path, "user", calls)
  /\ UNCHANGED <<pc, tabs, activeTabId, nextTabId, isInitialStartup, project,
                 runningScripts, projectButtonsHidden, scriptsBar, killAllPortsBtn,
                 confirms, micro, procs, clearBtn, deps, stopSent>>

\* a loadProject that sets tab.project whatever load_project answers
LoadResultAlways(old, path, ok) == ProjectAt(path)

\* tab.project after load_project has answered for `path`
LoadResult(old, path, ok) == IF ok THEN ProjectAt(path) ELSE old

\* load_project answers: the rest of loadProject, and of init() when it awaits it
LoadReply(c, ok) ==
  /\ Idle
  /\ c \in calls /\ c.op = "load_project"
  /\ calls' = calls \ {c}
  /\ console' = [console EXCEPT ![c.tab] = "lines"]
  /\ project' = [project EXCEPT ![c.tab] = LoadResult(@, c.arg, ok)]
  /\ IF ok
     THEN /\ recentProjects' = addToHistory(recentProjects, ProjectAt(c.arg))
          /\ localStorage' =
               StoredAfterAdd(recentProjects, localStorage, ProjectAt(c.arg))
          /\ IF activeTabId = c.tab THEN resetClearButton ELSE UNCHANGED clearBtn
          /\ projectButtonsHidden' = FALSE
          /\ nodeModulesInstalled' =
               [nodeModulesInstalled EXCEPT ![c.tab] = c.arg \in nodeModules]
          /\ installBtn' = (c.arg \notin nodeModules)
          /\ scriptsBar' = IF activeTabId = c.tab THEN c.tab ELSE scriptsBar
          /\ appended' = <<Line(c.tab, <<"Project loaded: ", c.arg>>, "success")>>
     ELSE /\ appended' = <<Line(c.tab, LoadError, "error")>>
          /\ projectButtonsHidden' =
               IF activeTabId = c.tab THEN TRUE ELSE projectButtonsHidden
          /\ scriptsBar' = IF activeTabId = c.tab THEN 0 ELSE scriptsBar
          /\ UNCHANGED <<recentProjects, localStorage, clearBtn,
                         nodeModulesInstalled, installBtn>>
  /\ isInitialStartup' = IF c.ctx = "init" THEN FALSE ELSE isInitialStartup
  /\ UNCHANGED <<pc, tabs, activeTabId, nextTabId, detectedUrl, runningScripts,
                 killAllPortsBtn, confirms, micro, procs, nodeModules, stopSent>>

(* -------------------------------- tabs --------------------------------- *)

\* the click handler of addTabBtn: createNewTab up to its await
AddTab ==
  /\ Idle /\ ModalHidden
  /\ createNewTab("addTab", tabs, calls, runningScripts, console)
  /\ appended' = <<>>
  /\ UNCHANGED <<pc, isInitialStartup, recentProjects, localStorage,
                 killAllPortsBtn, confirms, micro, procs,
                 nodeModulesInstalled, nodeModules, stopSent>>

\* click on addTabBtn
AddTabClick == Room /\ AddTab

\* click on addTabBtn, also while init() awaits the backend
AddTabAtStartup == StartupRoom /\ AddTab

\* mousedown on a tab
TabClick(id) ==
  /\ Idle /\ ModalHidden
  /\ InTabs(id)
  /\ switchTab(id, tabs, runningScripts)
  /\ appended' = <<>>
  /\ UNCHANGED <<pc, tabs, nextTabId, isInitialStartup, project, runningScripts,
                 console, recentProjects, localStorage, killAllPortsBtn, confirms,
                 micro, calls, procs, nodeModulesInstalled, nodeModules, stopSent>>

\* showCustomConfirm: one more pair of listeners on the modal's two buttons
showCustomConfirm(op, t) ==
  confirms' = Append(confirms, [op |-> op, tab |-> t])

\* closeTab(id) up to its first await
CloseTab(id) ==
  /\ Idle
  /\ ModalHidden \/ id = activeTabId
  /\ InTabs(id)
  /\ (Range(tabs) \subseteq ClosingTabs \cup {id}) => nextTabId <= MaxTabId
  /\ IF project[id] # NoProject
     THEN /\ showCustomConfirm("closeTab", id)
          /\ appended' = <<>>
          /\ UNCHANGED <<tabs, activeTabId, nextTabId, project, detectedUrl,
                         runningScripts, console, projectButtonsHidden,
                         scriptsBar, calls, clearBtn, installBtn, stopSent>>
     ELSE /\ closeTabLoop(id, 0, runningScripts, calls, <<>>)
          /\ UNCHANGED confirms
  /\ UNCHANGED <<pc, isInitialStartup, recentProjects, localStorage,
                 killAllPortsBtn, micro, procs, nodeModulesInstalled, nodeModules>>

\* click on a tab's close button, or Cmd+W for the active tab
CloseTabClick(id) == Room /\ CloseTab(id)

\* the same, also while init() awaits the backend
CloseTabAtStartup(id) == StartupRoom /\ CloseTab(id)

(* ------------------------------- modal --------------------------------- *)

\* handlers that go on whatever the dialog answered
ResumedAll(waiting, confirmed) == waiting

\* a closeTab that does not look at the dialog's answer
ResumedClose(waiting, confirmed) ==
  IF confirmed THEN waiting ELSE SelectSeq(waiting, LAMBDA w : w.op = "closeTab")

\* the handlers that go on after their dialog promise resolved with
\* `confirmed`: `if (!confirmed) return`, `if (!yes) return`
Resumed(waiting, confirmed) == IF confirmed THEN waiting ELSE <<>>

\* customModalConfirm: every listener on it resolves its promise with true
ModalConfirmClick ==
  /\ Idle
  /\ confirms # <<>>
  /\ micro' = Resumed(confirms, TRUE)
  /\ confirms' = <<>>
  /\ appended' = <<>>
  /\ UNCHANGED <<pc, tabs, activeTabId, nextTabId, isInitialStartup, project,
                 detectedUrl, runningScripts, console, recentProjects,
                 localStorage, projectButtonsHidden, scriptsBar, killAllPortsBtn,
                 calls, procs, clearBtn, deps, stopSent>>

\* customModalCancel: every listener on it resolves its promise with false,
\* and each handler awaiting one returns
ModalCancelClick ==
  /\ Idle
  /\ confirms # <<>>
  /\ confirms' = <<>>
  /\ micro' = Resumed(confirms, FALSE)
  /\ appended' = <<>>
  /\ UNCHANGED <<pc, tabs, activeTabId, nextTabId, isInitialStartup, project,
                 detectedUrl, runningScripts, console, recentProjects,
                 localStorage, projectButtonsHidden, scriptsBar, killAllPortsBtn,
                 calls, procs, clearBtn, deps, stopSent>>

\* the killAllPortsBtn handler after `confirmed` is true, up to its await
killAllPortsConfirmed ==
  /\ killAllPortsBtn' = [text |-> "Killing Ports...", disabled |-> TRUE]
  /\ calls' = AddCall(calls, Call("kill_all_ports", "kill", 0,
                                  killAllPortsBtn.text, TRUE, 0))
  /\ appended' = <<>>
  /\ UNCHANGED <<tabs, activeTabId, nextTabId, project, detectedUrl,
                 runningScripts, console, recentProjects, localStorage,
                 projectButtonsHidden, scriptsBar, clearBtn, installBtn, stopSent>>

\* closeTab(id) after `yes` is true, up to its next await
closeTabConfirmed(id) ==
  IF project[id] = NoProject
  THEN \* tabToClose.project is null by now: reading projectPath throws
       /\ appended' = <<>>
       /\ UNCHANGED <<tabs, activeTabId, nextTabId, project, detectedUrl,
                      runningScripts, console, recentProjects, localStorage,
                      projectButtonsHidden, scriptsBar, killAllPortsBtn, calls,
                      clearBtn, installBtn, stopSent>>
  ELSE /\ recentProjects' =
            updateHistoryOnClose(recentProjects, project[id].projectPath)
       /\ localStorage' =
            StoredAfterClose(recentProjects, localStorage, project[id].projectPath)
       /\ closeTabLoop(id, 0, runningScripts, calls, <<>>)
       /\ UNCHANGED killAllPortsBtn

\* the next continuation a confirmed dialog resumed
RunMicrotask ==
  /\ pc = "run"
  /\ micro # <<>>
  /\ micro' = Tail(micro)
  /\ IF Head(micro).op = "kill"
     THEN killAllPortsConfirmed
     ELSE closeTabConfirmed(Head(micro).tab)
  /\ UNCHANGED <<pc, isInitialStartup, confirms, procs, nodeModulesInstalled,
                 nodeModules>>

(* --------------------------- kill all ports ---------------------------- *)

KillAllPortsClick ==
  /\ Idle /\ Room /\ ModalHidden
  /\ ~projectButtonsHidden
  /\ ~killAllPortsBtn.disabled
  /\ showCustomConfirm("kill", 0)
  /\ appended' = <<>>
  /\ UNCHANGED <<pc, tabs, activeTabId, nextTabId, isInitialStartup, project,
                 detectedUrl, runningScripts, console, recentProjects,
                 localStorage, projectButtonsHidden, scriptsBar, killAllPortsBtn,
                 micro, calls, procs, clearBtn, deps, stopSent>>

\* kill_all_ports answers.  appendConsole is not defined in this file: the
\* call in the try block (or the one in the catch block) throws a
\* ReferenceError, nothing is appended, and the finally block runs.
KillReply(c, ok) ==
  /\ Idle
  /\ c \in calls /\ c.op = "kill_all_ports"
  /\ calls' = calls \ {c}
  /\ killAllPortsBtn' = [text |-> c.arg, disabled |-> FALSE]
  /\ appended' = <<>>
  /\ UNCHANGED <<pc, tabs, activeTabId, nextTabId, isInitialStartup, project,
                 detectedUrl, runningScripts, console, recentProjects,
                 localStorage, projectButtonsHidden, scriptsBar, confirms, micro,
                 procs, clearBtn, deps, stopSent>>

\* clearConsoleBtn
ClearConsoleClick ==
  /\ Idle /\ ModalHidden
  /\ InTabs(activeTabId)
  /\ console' = [console EXCEPT ![activeTabId] = "empty"]
  /\ detectedUrl' = [detectedUrl EXCEPT ![activeTabId] = NoUrl]
  /\ appended' = <<>>
  /\ UNCHANGED <<pc, tabs, activeTabId, nextTabId, isInitialStartup, project,
                 runningScripts, recentProjects, localStorage,
                 projectButtonsHidden, scriptsBar, killAllPortsBtn, confirms, micro,
                 calls, procs, clearBtn, deps, stopSent>>

(* ------------------------- install dependencies ------------------------- *)

\* what install_deps answers: true, false, or a rejection
InstallAnswers == {"true", "false", "error"}

\* click on an Install button: installDependencies() up to its await.  The
\* button's look while loading (setInstallLoading) is not part of the state.
InstallClick ==
  /\ Idle /\ Room /\ ModalHidden
  /\ installBtn
  /\ InTabs(activeTabId)
  /\ IF project[activeTabId] = NoProject
     THEN /\ appended' = <<>>
          /\ UNCHANGED <<console, calls>>
     ELSE /\ appended' =
               <<Line(activeTabId, <<"Installing dependencies...">>, "info")>>
          /\ console' = [console EXCEPT ![activeTabId] = "lines"]
          /\ calls' = AddCall(calls, Call("install_deps", "install", activeTabId,
                                          project[activeTabId].projectPath, TRUE, 0))
  /\ UNCHANGED <<pc, tabs, activeTabId, nextTabId, isInitialStartup, project,
                 detectedUrl, runningScripts, recentProjects, localStorage,
                 projectButtonsHidden, scriptsBar, killAllPortsBtn, confirms,
                 micro, procs, clearBtn, deps, stopSent>>

\* install_deps answers: the rest of installDependencies, up to the await in
\* the loadProject it calls
InstallReply(c, res) ==
  /\ Idle
  /\ c \in calls /\ c.op = "install_deps"
  /\ nodeModules' = IF res = "true" THEN nodeModules \cup {c.arg} ELSE nodeModules
  /\ IF res = "true" /\ project[c.tab] # NoProject
     THEN /\ nodeModulesInstalled' = [nodeModulesInstalled EXCEPT ![c.tab] = TRUE]
          /\ installBtn' = IF activeTabId = c.tab THEN FALSE ELSE installBtn
          \* loadProject(tab.project.projectPath): it works on getTab()
          /\ loadProjectAfter(project[c.tab].projectPath, "install", calls \ {c},
               <<Line(c.tab, <<"Dependencies installed successfully">>, "success")>>,
               [console EXCEPT ![c.tab] = "lines"])
     ELSE /\ calls' = calls \ {c}
          /\ IF res = "error"
             THEN /\ appended' =
                       <<Line(c.tab, <<"Failed to install dependencies: ", res>>, "error")>>
                  /\ console' = [console EXCEPT ![c.tab] = "lines"]
             ELSE /\ appended' = <<>>
                  /\ UNCHANGED console
          /\ UNCHANGED <<nodeModulesInstalled, installBtn, recentProjects,
                         localStorage, detectedUrl>>
  /\ UNCHANGED <<pc, tabs, activeTabId, nextTabId, isInitialStartup, project,
                 runningScripts, projectButtonsHidden, scriptsBar, killAllPortsBtn,
                 confirms, micro, procs, clearBtn, stopSent>>

(* ---------------------------- clear project ---------------------------- *)

TimerIds == 1..MaxTimers

\* a Clear Project button that takes every click for the second one
ArmedAlways(state) == TRUE

\* `if (clearBtnState === 0) {...; return}` is passed: this click confirms
Armed(state) == state # 0

\* the clearProjectBtn handler from its loop over tab.runningScripts on, for
\* the tab object t it took from getTab() at the click: `it` entries of the
\* Set are behind the iterator, rs are the running sets, cs the calls in
\* flight, app the spans appended so far in this task
clearLoop(t, it, rs, cs, app) ==
  IF HasNext(rs[t], it) /\ InTabs(activeTabId)
  THEN \* stopScript(script) up to its await: tabId is activeTabId as it is now
       /\ runningScripts' = rs
       /\ appended' =
            app \o <<Line(activeTabId, <<"Stopping: ", rs[t][it + 1]>>, "warning")>>
       /\ console' = [console EXCEPT ![activeTabId] = "lines"]
       /\ calls' = AddCall(cs, [Call("stop_script", "clear", t, rs[t][it + 1],
                                     TRUE, it + 1) EXCEPT !.req = activeTabId])
       /\ UNCHANGED <<project, detectedUrl, projectButtonsHidden, scriptsBar,
                      recentProjects, localStorage, nodeModulesInstalled, installBtn>>
  ELSE \* without an active tab every stopScript returns at once
       /\ runningScripts' = rs
       /\ appended' = app
       /\ calls' = cs
       /\ recentProjects' =
            IF project[t] # NoProject
            THEN updateHistoryOnClose(recentProjects, project[t].projectPath)
            ELSE recentProjects
       /\ localStorage' =
            IF project[t] # NoProject
            THEN StoredAfterClose(recentProjects, localStorage, project[t].projectPath)
            ELSE localStorage
       /\ project' = [project EXCEPT ![t] = NoProject]
       /\ nodeModulesInstalled' = [nodeModulesInstalled EXCEPT ![t] = FALSE]
       /\ console' = [console EXCEPT ![t] = "dropzone"]
       /\ scriptsBar' = 0
       /\ installBtn' = FALSE
       /\ projectButtonsHidden' = TRUE
       /\ detectedUrl' =
            updateScriptButtons([detectedUrl EXCEPT ![t] = NoUrl], rs, tabs, activeTabId)

\* click on clearProjectBtn
ClearProjectClick ==
  /\ Idle /\ ModalHidden
  /\ ~projectButtonsHidden
  /\ InTabs(activeTabId)
  /\ IF ~Armed(clearBtnState)
     THEN /\ TimerIds \ intervals # {}
          /\ clearBtnState' = 1
          /\ clearBtnCountdown' = 3
          /\ clearBtnInterval' = Min(TimerIds \ intervals)
          /\ intervals' = intervals \cup {Min(TimerIds \ intervals)}
          /\ appended' = <<>>
          /\ UNCHANGED <<project, detectedUrl, runningScripts, console,
                         recentProjects, localStorage, projectButtonsHidden,
                         scriptsBar, calls, nodeModulesInstalled, installBtn>>
     ELSE /\ runningScripts[activeTabId] # <<>> => Room
          /\ resetClearButton
          /\ clearLoop(activeTabId, 0, runningScripts, calls, <<>>)
  /\ UNCHANGED <<pc, tabs, activeTabId, nextTabId, isInitialStartup,
                 killAllPortsBtn, confirms, micro, procs, nodeModules, stopSent>>

\* the interval timer `id` fires: the callback of setInterval
ClearTick(id) ==
  /\ Idle
  /\ id \in intervals
  /\ clearBtnCountdown' = clearBtnCountdown - 1
  /\ IF clearBtnCountdown - 1 <= 0
     THEN /\ intervals' = ClearedInterval(intervals, clearBtnInterval)
          /\ clearBtnState' = 0
     ELSE UNCHANGED <<intervals, clearBtnState>>
  /\ appended' = <<>>
  /\ UNCHANGED <<pc, tabs, activeTabId, nextTabId, isInitialStartup, project,
                 detectedUrl, runningScripts, console, recentProjects,
                 localStorage, projectButtonsHidden, scriptsBar, killAllPortsBtn,
                 confirms, micro, calls, procs, clearBtnInterval, deps, stopSent>>

(* ------------------------------ scripts -------------------------------- *)

\* runScript(name, t) up to its await.  The backend's answer is fixed here:
\* when it accepts, the child process exists from now on.
runScript(name, t, ok) ==
  IF project[t] = NoProject
  THEN UNCHANGED <<calls, procs, console, appended>>
  ELSE /\ appended' = <<Line(t, <<"Starting: npm run ", name>>, "info")>>
       /\ console' = [console EXCEPT ![t] = "lines"]
       /\ calls' = AddCall(calls, Call("run_script", "toggle", t, name, ok, 0))
       /\ procs' = IF ok THEN [procs EXCEPT ![t][name] = @ + 1] ELSE procs

\* stopScript(name, t) up to its await, called by toggleScript
stopScript(name, t) ==
  /\ appended' = <<Line(t, <<"Stopping: ", name>>, "warning")>>
  /\ console' = [console EXCEPT ![t] = "lines"]
  /\ calls' = AddCall(calls, Call("stop_script", "toggle", t, name, TRUE, 0))
  /\ UNCHANGED procs

\* a toggleScript that does not look at tab.runningScripts
toggleScriptBlind(name, t, ok) == runScript(name, t, ok)

\* click on a script button of the scripts bar: toggleScript(name, tab.id)
toggleScript(name, t, ok) ==
  IF name \in Range(runningScripts[t])
  THEN stopScript(name, t)
  ELSE runScript(name, t, ok)

ScriptClick(name, ok) ==
  /\ Idle /\ ModalHidden
  /\ scriptsBar # 0 /\ InTabs(scriptsBar)
  /\ ClickRoom(scriptsBar, name)
  /\ ok => procs[scriptsBar][name] < MaxProcs
  /\ toggleScript(name, scriptsBar, ok)
  /\ UNCHANGED <<pc, tabs, activeTabId, nextTabId, isInitialStartup, project,
                 detectedUrl, runningScripts, recentProjects, localStorage,
                 projectButtonsHidden, scriptsBar, killAllPortsBtn, confirms, micro,
                 clearBtn, deps, stopSent>>

\* a runScript that marks the script running whatever run_script answers
RunResultAlways(set, name, ok) == SetAdd(set, name)

\* tab.runningScripts after run_script has answered
RunResult(set, name, ok) == IF ok THEN SetAdd(set, name) ELSE set

\* run_script answers: the rest of runScript
RunReply(c) ==
  /\ Idle
  /\ c \in calls /\ c.op = "run_script"
  /\ calls' = calls \ {c}
  /\ runningScripts' =
       [runningScripts EXCEPT ![c.tab] = RunResult(@, c.arg, c.ok)]
  /\ IF c.ok
     THEN /\ detectedUrl' =
               IF activeTabId = c.tab
               THEN updateScriptButtons(detectedUrl, runningScripts', tabs, activeTabId)
               ELSE detectedUrl
          /\ appended' = <<>>
          /\ UNCHANGED console
     ELSE /\ appended' = <<Line(c.tab, RunError, "error")>>
          /\ console' = [console EXCEPT ![c.tab] = "lines"]
          /\ UNCHANGED detectedUrl
  /\ UNCHANGED <<pc, tabs, activeTabId, nextTabId, isInitialStartup, project,
                 recentProjects, localStorage, projectButtonsHidden, scriptsBar,
                 killAllPortsBtn, confirms, micro, procs, clearBtn, deps, stopSent>>

\* tab.runningScripts after stop_script has answered (line 760)
StopResult(set, name, ok) == IF ok THEN SetAdd(set, name) ELSE set

\* stop_script answers: the rest of stopScript, and of the closeTab that awaits it
StopReply(c, ok) ==
  /\ Idle
  /\ c \in calls /\ c.op = "stop_script"
  /\ LET rs == [runningScripts EXCEPT ![c.req] = StopResult(@, c.arg, ok)]
     IN  CASE c.ctx = "closeTab" ->
                /\ closeTabLoop(c.tab, c.it, rs, calls \ {c}, <<>>)
                /\ UNCHANGED <<recentProjects, localStorage, nodeModulesInstalled>>
           [] c.ctx = "clear" ->
                /\ clearLoop(c.tab, c.it, rs, calls \ {c}, <<>>)
                /\ UNCHANGED <<tabs, activeTabId, nextTabId, clearBtn, stopSent>>
           [] OTHER ->
                /\ runningScripts' = rs
                /\ calls' = calls \ {c}
                /\ appended' = <<>>
                /\ UNCHANGED <<tabs, activeTabId, nextTabId, project, detectedUrl,
                               console, projectButtonsHidden, scriptsBar,
                               clearBtn, installBtn, stopSent, recentProjects,
                               localStorage, nodeModulesInstalled>>
  /\ UNCHANGED <<pc, isInitialStartup, killAllPortsBtn, confirms, micro, procs,
                 nodeModules>>

\* an iterator over tab t's Set after `name` is deleted from it: an entry
\* behind the iterator goes, so one entry fewer is behind it
IterAfterDelete(c, t, name) ==
  IF /\ c.op = "stop_script" /\ c.ctx \in {"closeTab", "clear"} /\ c.tab = t
     /\ IndexOf(runningScripts[t], name) # 0
     /\ IndexOf(runningScripts[t], name) <= c.it
  THEN [c EXCEPT !.it = @ - 1]
  ELSE c

\* tab.runningScripts after the 'script-exit' listener
ExitResult(set, name) == Without(set, name)

\* a child process ends and the 'script-exit' listener runs
ScriptExit(t, name, code) ==
  /\ Idle
  /\ procs[t][name] > 0
  /\ procs' = [procs EXCEPT ![t][name] = @ - 1]
  /\ IF ~InTabs(t)
     THEN /\ appended' = <<>>
          /\ UNCHANGED <<runningScripts, detectedUrl, console, calls>>
     ELSE /\ runningScripts' =
               [runningScripts EXCEPT ![t] = ExitResult(@, name)]
          /\ calls' = {IterAfterDelete(c, t, name) : c \in calls}
          /\ detectedUrl' =
               IF activeTabId = t
               THEN updateScriptButtons(detectedUrl, runningScripts', tabs, activeTabId)
               ELSE detectedUrl
          /\ appended' =
               <<Line(t, <<"Script exited with code ", name, ToString(code)>>,
                      IF code = 0 THEN "success" ELSE "error")>>
          /\ console' = [console EXCEPT ![t] = "lines"]
  /\ UNCHANGED <<pc, tabs, activeTabId, nextTabId, isInitialStartup, project,
                 recentProjects, localStorage, projectButtonsHidden, scriptsBar,
                 killAllPortsBtn, confirms, micro, clearBtn, deps, stopSent>>

\* checkForUrl(text, tab): tab.detectedUrl after it
checkForUrl(text, url) ==
  IF PickUrl(text) # <<>> /\ url = NoUrl THEN PickUrl(text) ELSE url

\* what the 'script-output' listener computes from a payload alone, tabulated
\* over the payloads: data.data stripped, its span type, the URL in it
Listened ==
  [pl \in Payloads |->
     [cleanText |-> stripAnsi(pl.data),
      type      |-> OutputType(stripAnsi(pl.data), pl.type),
      class     |-> SpanClass(stripAnsi(pl.data),
                              OutputType(stripAnsi(pl.data), pl.type)),
      url       |-> checkForUrl(stripAnsi(pl.data), NoUrl)]]

\* a listener that writes to the active tab instead of the payload's tab
OutputLinesActive(t, pl, url) ==
  <<[tab |-> activeTabId, text |-> Listened[pl].cleanText,
     class |-> Listened[pl].class]>>

\* the spans the 'script-output' listener appends for payload pl to tab t
OutputLines(t, pl, url) ==
  <<[tab |-> t, text |-> Listened[pl].cleanText, class |-> Listened[pl].class]>> \o
  (IF url = NoUrl /\ Listened[pl].url # NoUrl
   THEN <<Line(t, <<"Server ready at: ">> \o Listened[pl].url, "success")>>
   ELSE <<>>)

\* a checkForUrl without the test of tab.detectedUrl
OutputUrlLatest(pl, url) ==
  IF Listened[pl].url # NoUrl THEN Listened[pl].url ELSE url

\* tab.detectedUrl after the 'script-output' listener
OutputUrl(pl, url) == IF url = NoUrl THEN Listened[pl].url ELSE url

\* a child process of tab t writes and the 'script-output' listener runs
ScriptOutput(t, pl) ==
  /\ Idle
  /\ \E s \in Scripts : procs[t][s] > 0
  /\ IF ~InTabs(t)
     THEN /\ appended' = <<>>
          /\ UNCHANGED <<detectedUrl, console>>
     ELSE /\ appended' = OutputLines(t, pl, detectedUrl[t])
          /\ console' = [console EXCEPT ![t] = "lines"]
          /\ detectedUrl' = [detectedUrl EXCEPT ![t] = OutputUrl(pl, @)]
  /\ UNCHANGED <<pc, tabs, activeTabId, nextTabId, isInitialStartup, project,
                 runningScripts, recentProjects, localStorage,
                 projectButtonsHidden, scriptsBar, killAllPortsBtn, confirms, micro,
                 calls, procs, clearBtn, deps, stopSent>>

(* ------------------------------- Next ---------------------------------- *)

Next ==
  \/ Startup
  \/ \E c \in calls : DefaultPathReply(c)
  \/ \E path \in Paths : SelectFolder(path)
  \/ \E c \in calls, ok \in BOOLEAN : LoadReply(c, ok)
  \/ AddTabClick
  \/ \E id \in TabIds : TabClick(id)
  \/ \E id \in TabIds : CloseTabClick(id)
  \/ ModalConfirmClick
  \/ ModalCancelClick
  \/ RunMicrotask
  \/ KillAllPortsClick
  \/ \E c \in calls, ok \in BOOLEAN : KillReply(c, ok)
  \/ ClearConsoleClick
  \/ \E name \in Scripts, ok \in BOOLEAN : ScriptClick(name, ok)
  \/ \E c \in calls : RunReply(c)
  \/ \E c \in calls, ok \in BOOLEAN : StopReply(c, ok)
  \/ \E t \in TabIds, name \in Scripts, code \in {0, 1} : ScriptExit(t, name, code)
  \/ \E t \in TabIds, pl \in Payloads : ScriptOutput(t, pl)

Spec == Init /\ [][Next]_vars

(* ------------------- the history over several sessions ------------------ *)

\* the folders the user opens: those of Paths and one more than the history holds
HistoryPaths == Paths \cup {PathNames[MAX_HISTORY + 1]}

\* what earlier sessions left in local storage: nothing, a full history, or
\* an item cut short that JSON.parse rejects
FullHistory ==
  [i \in 1..MAX_HISTORY |-> [name |-> PathNames[i], path |-> PathNames[i]]]
StoredItems ==
  {NoItem, JSONstringify(FullHistory), SubSeq(JSONstringify(FullHistory), 1, 5)}

InitHist == InitWith(StoredItems)

\* a session of opening, reopening and closing projects
NextHist ==
  \/ Startup
  \/ \E c \in calls : DefaultPathReply(c)
  \/ \E path \in HistoryPaths : SelectFolder(path)
  \/ \E c \in calls, ok \in BOOLEAN : LoadReply(c, ok)
  \/ AddTabClick
  \/ \E id \in TabIds : TabClick(id)
  \/ \E id \in TabIds : CloseTabClick(id)
  \/ ModalConfirmClick
  \/ ModalCancelClick
  \/ RunMicrotask

SpecHist == InitHist /\ [][NextHist]_vars

(* ----------------------- the Clear Project button ----------------------- *)

\* a session of running scripts and clearing projects
NextClear ==
  \/ Startup
  \/ \E c \in calls : DefaultPathReply(c)
  \/ \E path \in Paths : SelectFolder(path)
  \/ \E c \in calls, ok \in BOOLEAN : LoadReply(c, ok)
  \/ AddTabClick
  \/ \E id \in TabIds : TabClick(id)
  \/ \E id \in TabIds : CloseTabClick(id)
  \/ ModalConfirmClick
  \/ ModalCancelClick
  \/ RunMicrotask
  \/ ClearProjectClick
  \/ \E id \in TimerIds : ClearTick(id)
  \/ \E name \in Scripts, ok \in BOOLEAN : ScriptClick(name, ok)
  \/ \E c \in calls : RunReply(c)
  \/ \E c \in calls, ok \in BOOLEAN : StopReply(c, ok)
  \/ \E t \in TabIds, name \in Scripts, code \in {0, 1} : ScriptExit(t, name, code)

SpecClear == Init /\ [][NextClear]_vars

(* -------------------- installing in one tab of several ------------------ *)

NextInstall ==
  \/ Startup
  \/ \E c \in calls : DefaultPathReply(c)
  \/ \E path \in Paths : SelectFolder(path)
  \/ \E c \in calls, ok \in BOOLEAN : LoadReply(c, ok)
  \/ AddTabClick
  \/ \E id \in TabIds : TabClick(id)
  \/ InstallClick
  \/ \E c \in calls, res \in InstallAnswers : InstallReply(c, res)
  \/ \E name \in Scripts, ok \in BOOLEAN : ScriptClick(name, ok)
  \/ \E c \in calls : RunReply(c)
  \/ \E t \in TabIds, pl \in Payloads : ScriptOutput(t, pl)

SpecInstall == Init /\ [][NextInstall]_vars

(* ------------------- the user does not wait for startup ------------------ *)

NextStartup ==
  \/ Startup
  \/ \E c \in calls : DefaultPathReply(c)
  \/ \E path \in Paths : SelectFolder(path)
  \/ \E c \in calls, ok \in BOOLEAN : LoadReply(c, ok)
  \/ AddTabAtStartup
  \/ \E id \in TabIds : TabClick(id)
  \/ \E id \in TabIds : CloseTabAtStartup(id)
  \/ ModalConfirmClick
  \/ ModalCancelClick
  \/ RunMicrotask

SpecStartup == Init /\ [][NextStartup]_vars

TypeOK ==
  /\ pc \in {"load", "run"}
  /\ activeTabId \in 0..MaxTabId
  /\ nextTabId \in 1..(MaxTabId + 1)
  /\ Range(tabs) \subseteq TabIds
  /\ scriptsBar \in 0..MaxTabId
  /\ Pending <= MaxPending + MaxClicks
  /\ clearBtnState \in {0, 1}
  /\ clearBtnInterval \in 0..MaxTimers
  /\ intervals \subseteq TimerIds
  /\ installBtn \in BOOLEAN
  /\ nodeModules \subseteq Paths
  /\ stopSent \subseteq TabIds \X Scripts

(* =============================== claims =============================== *)

PayloadOf(data) == CHOOSE pl \in Payloads : pl.data = data

\* what a terminal shows of each payload: its text without escape sequences
VisibleText(pl) ==
  CASE pl.data = OutPlain -> <<"o","k">>
    [] pl.data = OutVite ->
         <<"h","t","t","p",":","/","/","l","o","c","a","l","h","o","s","t",
           ":","5","1","/">>
    [] pl.data = OutBoth -> OutBoth
    [] pl.data = OutLoop6 -> OutLoop6
    [] pl.data = OutEaten ->
         <<"t","t","p",":","/","/","l","o","c","a","l","h","o","s","t",
           ":","5","1">>

UrlLocalhost51 ==
  <<"h","t","t","p",":","/","/","l","o","c","a","l","h","o","s","t",":","5","1">>
UrlLoopback4 ==
  <<"H","T","T","P","S",":","/","/","1","2","7",".","0",".","0",".","1",":","8">>
UrlLoopback6 == <<"h","t","t","p",":","/","/","[",":",":","1","]",":","9">>

\* the server URLs in the text the listener hands to checkForUrl
UrlsIn(pl) ==
  CASE pl.data = OutPlain -> {}
    [] pl.data = OutVite -> {UrlLocalhost51}
    [] pl.data = OutBoth -> {UrlLoopback4, UrlLocalhost51}
    [] pl.data = OutLoop6 -> {UrlLoopback6}
    [] pl.data = OutEaten -> {}

\* the 'Server ready at' lines for tab t among the spans app
ReadyLines(app, t) ==
  {i \in DOMAIN app : app[i].tab = t /\ app[i].text[1] = "Server ready at: "}

\* everything the frontend holds
frontend ==
  <<pc, tabs, activeTabId, nextTabId, isInitialStartup, project, detectedUrl,
    runningScripts, console, recentProjects, localStorage, projectButtonsHidden,
    scriptsBar, killAllPortsBtn, confirms, micro, calls>>

\* C1: a 'script-output' event for an open tab T appends the ANSI-stripped
\* text to T's console and to no other console, and changes no other tab's
\* detectedUrl or runningScripts; for a tab that is not open it changes no
\* state at all.
C1_OutputFrame ==
  [][\A t \in TabIds, pl \in Payloads :
       ScriptOutput(t, pl) =>
         IF InTabs(t)
         THEN /\ appended' # <<>>
              /\ appended'[1].text = VisibleText(pl)
              /\ \A i \in DOMAIN appended' : appended'[i].tab = t
              /\ \A u \in TabIds \ {t} :
                   /\ console'[u] = console[u]
                   /\ detectedUrl'[u] = detectedUrl[u]
                   /\ runningScripts'[u] = runningScripts[u]
         ELSE /\ appended' = <<>>
              /\ UNCHANGED frontend]_vars

\* output with escape sequences has reached tab t, stripped, while another
\* open tab u has a script marked running and a URL detected
C1_Witness ==
  \E t, u \in TabIds :
    /\ t # u /\ InTabs(t) /\ InTabs(u)
    /\ appended # <<>>
    /\ appended[1].tab = t
    /\ appended[1].text = VisibleText(PayloadOf(OutVite))
    /\ runningScripts[u] # <<>>
    /\ detectedUrl[u] # NoUrl

\* C2: when stop_script has answered for (script, T) and the script's exit
\* has been delivered in between (the script was unmarked while the stop was
\* awaited, no process of it is left and no run is outstanding), the script
\* is not in T.runningScripts after the answer.
C2_StopThenExitStaysOut ==
  [][\A c \in calls, ok \in BOOLEAN :
       ( /\ StopReply(c, ok)
         /\ c.arg \notin Range(runningScripts[c.tab])
         /\ procs[c.tab][c.arg] = 0
         /\ RunCalls(c.tab, c.arg) = {} )
       => c.arg \notin Range(runningScripts'[c.tab])]_vars

\* C3: no run_script request is sent for (N, T) while an earlier one is not
\* yet answered or a process of (N, T) is alive.
C3_OneRunAtATime ==
  [][\A t \in TabIds, n \in Scripts :
       (RunCalls(t, n)' \ RunCalls(t, n) # {})
       => (RunCalls(t, n) = {} /\ procs[t][n] = 0)]_vars

\* C4: output for an open tab whose detectedUrl is null and whose text holds
\* a server URL sets detectedUrl to one of the URLs in the text and appends
\* exactly one 'Server ready at' line to that tab; output without a URL sets
\* nothing; while detectedUrl is not null, output leaves it as it is and
\* appends no 'Server ready at' line.
C4_UrlOnce ==
  [][\A t \in TabIds, pl \in Payloads :
       (ScriptOutput(t, pl) /\ InTabs(t)) =>
         IF detectedUrl[t] # NoUrl
         THEN /\ detectedUrl'[t] = detectedUrl[t]
              /\ ReadyLines(appended', t) = {}
         ELSE IF UrlsIn(pl) # {}
              THEN /\ detectedUrl'[t] \in UrlsIn(pl)
                   /\ Cardinality(ReadyLines(appended', t)) = 1
                   /\ appended'[Len(appended')].text =
                        <<"Server ready at: ">> \o detectedUrl'[t]
              ELSE /\ detectedUrl'[t] = NoUrl
                   /\ ReadyLines(appended', t) = {}]_vars

\* output with another server URL has reached a tab whose detectedUrl was
\* set before: the URL stands and only the output line was appended
C4_Witness ==
  \E t \in TabIds :
    /\ InTabs(t)
    /\ detectedUrl[t] = UrlLocalhost51
    /\ appended = <<[tab |-> t, text |-> OutLoop6, class |-> "warning"]>>

\* C5: a run_script request is sent, and a process started, only by a click
\* on the button of a script that is not marked running; no 'script-exit' or
\* 'script-output' event sends one, so an exited script stays stopped.
C5_RunOnlyByToggle ==
  [][/\ \A t \in TabIds, n \in Scripts :
          (RunCalls(t, n)' \ RunCalls(t, n) # {} \/ procs'[t][n] > procs[t][n])
          => /\ t = scriptsBar
             /\ n \notin Range(runningScripts[t])
             /\ \E ok \in BOOLEAN : ScriptClick(n, ok)
     /\ \A t \in TabIds, n \in Scripts, code \in {0, 1} :
          ScriptExit(t, n, code) =>
            /\ \A c \in calls' : c.op # "run_script" \/ c \in calls
            /\ procs'[t][n] < procs[t][n]
     /\ \A t \in TabIds, pl \in Payloads :
          ScriptOutput(t, pl) => UNCHANGED <<calls, procs>>]_vars

\* a script exited with an error code: it is unmarked, no process of it is
\* left and nothing has asked the backend to run it again
C5_Witness ==
  \E t \in TabIds, n \in Scripts :
    /\ InTabs(t)
    /\ appended # <<>>
    /\ appended[1].tab = t
    /\ appended[1].text = <<"Script exited with code ", n, "1">>
    /\ n \notin Range(runningScripts[t])
    /\ procs[t][n] = 0
    /\ calls = {}

\* C6: when the backend rejects run_script for (script, T), one error line
\* goes to T's console, no Set of running scripts changes and no other tab
\* changes; runScript marks the script running only when the call succeeds.
C6_RunFailure ==
  [][\A c \in calls :
       RunReply(c) =>
         IF c.ok
         THEN c.arg \in Range(runningScripts'[c.tab])
         ELSE /\ appended' = <<[tab |-> c.tab, text |-> RunError, class |-> "error"]>>
              /\ runningScripts' = runningScripts
              /\ \A u \in TabIds \ {c.tab} :
                   /\ project'[u] = project[u]
                   /\ detectedUrl'[u] = detectedUrl[u]
                   /\ console'[u] = console[u]]_vars

\* run_script was rejected for tab t: the error is in its console and nothing
\* is marked running there, while another open tab has a script running
C6_Witness ==
  \E t, u \in TabIds :
    /\ t # u /\ InTabs(t) /\ InTabs(u)
    /\ appended = <<[tab |-> t, text |-> RunError, class |-> "error"]>>
    /\ runningScripts[t] = <<>>
    /\ runningScripts[u] # <<>>

\* the names and paths of a history, in order
EntriesOf(list) == [i \in DOMAIN list |-> <<list[i].name, list[i].path>>]

\* C7: when load_project fails, one error line goes to the tab's console and
\* the tab's project, recentProjects and the stored history are what they
\* were; the part of loadProject before the call leaves the tab's project
\* alone and adds, removes or moves no entry of the history, in memory or in
\* local storage.
C7_LoadFailure ==
  [][/\ \A c \in calls :
          LoadReply(c, FALSE) =>
            /\ appended' = <<[tab |-> c.tab, text |-> LoadError, class |-> "error"]>>
            /\ project' = project
            /\ recentProjects' = recentProjects
            /\ localStorage' = localStorage
     /\ ( \/ \E path \in HistoryPaths : SelectFolder(path)
          \/ \E c \in calls : DefaultPathReply(c) ) =>
            /\ project' = project
            /\ EntriesOf(recentProjects') = EntriesOf(recentProjects)
            /\ EntriesOf(loadHistory(localStorage')) =
                 EntriesOf(loadHistory(localStorage))]_vars

\* opening another folder in a tab that holds the first project has failed:
\* the tab still holds the first project and the history lists it first
C7_Witness ==
  \E t \in TabIds :
    /\ InTabs(t)
    /\ appended = <<[tab |-> t, text |-> LoadError, class |-> "error"]>>
    /\ project[t] = ProjectAt(PathNames[1])
    /\ recentProjects # <<>>
    /\ recentProjects[1].path = PathNames[1]
    /\ "closedAt" \in DOMAIN recentProjects[1]

\* C8: whenever addToHistory or updateHistoryOnClose has changed the history,
\* the stored item is the JSON serialization of recentProjects, and
\* loadHistory reads from it exactly the list in memory.
C8_StoredIsMemory ==
  [][/\ (pc = "run" /\ (recentProjects' # recentProjects
                        \/ localStorage' # localStorage)) =>
          /\ localStorage' = JSONstringify(recentProjects')
          /\ loadHistory(localStorage') = recentProjects'
     /\ (pc' = "run" /\ recentProjects' # <<>>) =>
          loadHistory(localStorage') = recentProjects']_vars

\* the history holds an open project in front of a closed one, and the stored
\* item reads back as the same list
C8_Witness ==
  /\ pc = "run"
  /\ Len(recentProjects) >= 2
  /\ "closedAt" \notin DOMAIN recentProjects[1]
  /\ "closedAt" \in DOMAIN recentProjects[2]
  /\ loadHistory(localStorage) = recentProjects

\* at most MAX_HISTORY entries, no two with the same path
Bounded(list) ==
  /\ Len(list) <= MAX_HISTORY
  /\ \A i, j \in DOMAIN list : i # j => list[i].path # list[j].path

\* C9: recentProjects has at most MAX_HISTORY entries and no path twice; a
\* project that has just been loaded is at index 0; loading a project that is
\* not in a full history drops the last entry and keeps the others in order.
C9_BoundedMRU ==
  [][/\ Bounded(recentProjects')
     /\ \A c \in calls :
          LoadReply(c, TRUE) =>
            /\ recentProjects'[1].path = c.arg
            /\ ( /\ Len(recentProjects) = MAX_HISTORY
                 /\ \A i \in DOMAIN recentProjects : recentProjects[i].path # c.arg )
               => Tail(recentProjects') = SubSeq(recentProjects, 1, MAX_HISTORY - 1)]_vars

\* an eleventh project was loaded into a full history: it is in front and
\* the tenth path of the stored history is gone
C9_Witness ==
  /\ Len(recentProjects) = MAX_HISTORY
  /\ recentProjects[1].path = PathNames[MAX_HISTORY + 1]
  /\ \A i \in DOMAIN recentProjects : recentProjects[i].path # PathNames[MAX_HISTORY]

\* C10: kill_all_ports is invoked only by the handler that a click on the
\* dialog's Confirm button resumed; a click on Cancel resumes no handler,
\* invokes nothing and changes no tab, console or button.
C10_KillGated ==
  [][/\ ({c \in calls' : c.op = "kill_all_ports"} \ calls # {}) =>
          (RunMicrotask /\ micro # <<>> /\ Head(micro).op = "kill")
     /\ (Len(micro') > Len(micro)) => ModalConfirmClick
     /\ ModalCancelClick =>
          /\ micro' = <<>>
          /\ appended' = <<>>
          /\ UNCHANGED <<pc, tabs, activeTabId, nextTabId, isInitialStartup,
                         project, detectedUrl, runningScripts, console,
                         recentProjects, localStorage, projectButtonsHidden,
                         scriptsBar, killAllPortsBtn, calls, procs>>]_vars

\* the dialog was confirmed and kill_all_ports is in flight
C10_Witness ==
  /\ \E c \in calls : c.op = "kill_all_ports"
  /\ killAllPortsBtn = [text |-> "Killing Ports...", disabled |-> TRUE]

\* C11: when kill_all_ports has answered, with a result or with an error, a
\* line with the result or the error is appended to the active tab's console
\* and the button is enabled again with its original label.
C11_KillSurfaced ==
  [][\A c \in calls, ok \in BOOLEAN :
       KillReply(c, ok) =>
         /\ appended' # <<>>
         /\ \A i \in DOMAIN appended' : appended'[i].tab = activeTabId
         /\ killAllPortsBtn' = [text |-> "Kill All Ports", disabled |-> FALSE]]_vars

\* C12: a script becomes marked running in a tab only when a run_script call
\* for that script and tab answers with success, and the 'script-exit' event
\* for an open tab leaves the script unmarked; so a marked script has had a
\* successful run and no exit delivered since.
C12_MarkedOnlyByRun ==
  [][/\ \A t \in TabIds, n \in Scripts :
          ( /\ n \notin Range(runningScripts[t])
            /\ n \in Range(runningScripts'[t]) )
          => \E c \in calls :
               /\ c.op = "run_script" /\ c.tab = t /\ c.arg = n /\ c.ok
               /\ RunReply(c)
     /\ \A t \in TabIds, n \in Scripts, code \in {0, 1} :
          (ScriptExit(t, n, code) /\ InTabs(t))
          => n \notin Range(runningScripts'[t])]_vars

Sent == {c \in calls' : \A d \in calls : [d EXCEPT !.it = c.it] # c}

C15_CancelKeepsTab ==
  [][ModalCancelClick =>
       /\ \A w \in Range(micro') \cup Range(confirms') : w.op # "closeTab"
       /\ UNCHANGED <<tabs, activeTabId, project, runningScripts, calls,
                      stopSent, recentProjects, localStorage>>]_vars

\* the Close Project dialog is shown for a tab that holds a project and has a
\* script marked running: Cancel can be clicked
C15_Witness ==
  \E w \in Range(confirms) :
    /\ w.op = "closeTab"
    /\ InTabs(w.tab)
    /\ project[w.tab] # NoProject
    /\ runningScripts[w.tab] # <<>>
    /\ "closedAt" \notin DOMAIN recentProjects[FindIndex(recentProjects,
                                                         project[w.tab].projectPath)]

\* C16: a click on Clear Project while the button is not armed only arms it:
\* no project is cleared and no stop_script is sent; a tab's project is
\* cleared only by the handler of a click that came while the button was
\* armed, and the tab cleared is the tab that was active at that click, which
\* is the tab that was active when the button was armed: every step that
\* changes the active tab, or loads a project into the active tab, leaves the
\* button unarmed.
C16_ClearNeedsTwoClicks ==
  [][/\ (ClearProjectClick /\ clearBtnState = 0) =>
          /\ clearBtnState' = 1
          /\ Sent = {}
          /\ UNCHANGED <<tabs, activeTabId, project, runningScripts, console,
                         detectedUrl, recentProjects, localStorage>>
     /\ \A t \in TabIds :
          (project[t] # NoProject /\ project'[t] = NoProject) =>
            \/ ClearProjectClick /\ clearBtnState = 1 /\ t = activeTabId
            \/ \E c \in calls, ok \in BOOLEAN :
                 /\ c.op = "stop_script" /\ c.ctx = "clear" /\ c.tab = t
                 /\ StopReply(c, ok)
     /\ \A c \in Sent :
          (c.op = "stop_script" /\ c.ctx = "clear" /\ c.it = 1 /\ ClearProjectClick)
          => (clearBtnState = 1 /\ c.tab = activeTabId)
     /\ activeTabId' # activeTabId => clearBtnState' = 0
     /\ \A c \in calls :
          (LoadReply(c, TRUE) /\ c.tab = activeTabId) => clearBtnState' = 0]_vars

\* the project of the only tab was cleared by the second click: the tab shows
\* the drop zone, the button is unarmed and hidden, and the history carries
\* the closing time
C16_Witness ==
  /\ tabs = <<1>> /\ nextTabId = 2
  /\ calls = {}
  /\ project[1] = NoProject
  /\ console[1] = "dropzone"
  /\ clearBtnState = 0 /\ intervals = {}
  /\ projectButtonsHidden
  /\ recentProjects # <<>>
  /\ "closedAt" \in DOMAIN recentProjects[1]

\* C17: the first click sets the countdown to 3 and starts the only timer;
\* each tick of it counts down by one, and the third tick unarms the button
\* and stops the timer; at most one timer is alive, it is the one the button
\* holds, and it is alive exactly while the button is armed, so once the
\* button is unarmed no tick comes and only a click arms it again.
C17_CountdownExpires ==
  [][/\ Cardinality(intervals') <= 1
     /\ clearBtnState' = 0 => intervals' = {}
     /\ clearBtnState' = 1 =>
          (intervals' = {clearBtnInterval'} /\ clearBtnCountdown' \in 1..3)
     /\ (clearBtnState = 0 /\ clearBtnState' = 1) =>
          (ClearProjectClick /\ clearBtnCountdown' = 3)
     /\ (clearBtnState = 0 /\ clearBtnState' = 0) =>
          clearBtnCountdown' = clearBtnCountdown
     /\ \A id \in TimerIds :
          ClearTick(id) =>
            /\ clearBtnState = 1
            /\ clearBtnCountdown' = clearBtnCountdown - 1
            /\ clearBtnState' = IF clearBtnCountdown = 1 THEN 0 ELSE 1]_vars

\* the third tick has come without a second click: the button is unarmed,
\* its timer is gone and the project is still loaded
C17_Witness ==
  /\ clearBtnState = 0
  /\ clearBtnCountdown = 0
  /\ clearBtnInterval # 0
  /\ intervals = {}
  /\ InTabs(activeTabId)
  /\ project[activeTabId] # NoProject

\* C18: every stop_script request the Clear Project handler sends for the
\* scripts of the tab it clears names that tab, and when such a request has
\* answered no other tab's runningScripts has changed.
C18_ClearStopsItsTab ==
  [][/\ \A c \in Sent :
          (c.op = "stop_script" /\ c.ctx = "clear") => c.req = c.tab
     /\ \A c \in calls, ok \in BOOLEAN :
          (c.op = "stop_script" /\ c.ctx = "clear" /\ StopReply(c, ok)) =>
            \A u \in TabIds \ {c.tab} : runningScripts'[u] = runningScripts[u]]_vars

\* C19: get_default_path is requested by init() alone, once; the default
\* project is loaded into tab-1, the first tab; a tab that opens starts
\* without project and with the drop zone, and no tab but tab-1 is handed the
\* default project.
C19_DefaultOnlyFirstTab ==
  [][/\ \A c \in Sent :
          c.op = "get_default_path" => (Startup /\ c.ctx = "init")
     /\ \A c \in calls : DefaultPathReply(c) =>
          \A d \in Sent : d.op = "load_project" => d.tab = 1
     /\ \A t \in TabIds :
          (~InTabs(t) /\ t \in Range(tabs')) =>
            (project'[t] = NoProject /\ console'[t] = "dropzone")]_vars

\* C20: when install_deps started in tab T has answered, the reload that
\* follows is a load_project for T, every span appended goes to T's console,
\* and the detectedUrl and project of every other tab are left as they are.
C20_InstallReloadsItsTab ==
  [][\A c \in calls, res \in InstallAnswers :
       InstallReply(c, res) =>
         /\ \A d \in Sent : d.op = "load_project" => d.tab = c.tab
         /\ \A i \in DOMAIN appended' : appended'[i].tab = c.tab
         /\ \A u \in TabIds \ {c.tab} :
              /\ detectedUrl'[u] = detectedUrl[u]
              /\ console'[u] = console[u]
              /\ project'[u] = project[u]]_vars
====
